---- MODULE Spec2Model ----
(***************************************************************************)
(* The authentication and profile routes of the Express/Mongoose API:      *)
(* server bootstrap (src/server.ts, config/database.ts), the login and     *)
(* identity routes (src/routes/api/auth.ts) and the profile routes         *)
(* (src/routes/api/profile.ts) over the User and Profile collections.      *)
(*                                                                         *)
(* A request is a record that moves through the awaits of its handler;     *)
(* each await (a store call, bcrypt.compare, jwt.sign) is one step, and    *)
(* the synchronous code that follows it up to the next await belongs to    *)
(* the same step.  Requests interleave at the awaits only.                 *)
(***************************************************************************)
EXTENDS Naturals, FiniteSets, Sequences, Bags

VARIABLES
    db,         \* mongoose connection: "pending", "connected" or "failed"
    listening,  \* app.listen has bound the port
    proc,       \* the node process: "running" or "exited"
    users,      \* the User collection
    profiles,   \* the Profile collection
    nextId,     \* the next Profile _id the driver generates
    reqs        \* bag of the requests received so far, each at its await

vars == <<db, listening, proc, users, profiles, nextId, reqs>>

\* Requests received in one run.
MaxReqs == 2

----------------------------------------------------------------------------
\* Values

\* A value never assigned (JavaScript undefined).
None == [none |-> TRUE]

\* What a query that matches nothing resolves to (JavaScript null).
JsonNull == [json |-> "null"]

OK == 200
BAD_REQUEST == 400
UNAUTHORIZED == 401
INTERNAL_SERVER_ERROR == 500

\* bcrypt: the hash carries its salt; compare re-hashes with that salt.
Hash(plain, salt) == [salt |-> salt, digest |-> <<salt, plain>>]

Compare(plain, hashed) == Hash(plain, hashed.salt) = hashed

\* The User documents that exist when the server starts (registration is
\* a route of its own, routes/api/user.ts).
AllUsers ==
    { [id |-> "u1", email |-> "a@x.com", password |-> Hash("secret", "s1")],
      [id |-> "u2", email |-> "b@x.com", password |-> Hash("hunter2", "s2")] }

\* config.get("jwtSecret")
jwtSecret == "jwtSecret"

\* jwt.sign(payload, secret, {expiresIn}): the token carries the payload,
\* the key it was signed with, and whether its expiration has passed when
\* it is presented (never at signing).
Sign(payload, secret) ==
    [userId |-> payload.userId, secret |-> secret, expired |-> FALSE]

\* jwt.verify(token, secret) succeeds.
VerifyOk(token, secret) == token.secret = secret /\ ~token.expired

\* A request without the token header.
NoToken == None

\* What a client can present: nothing, a token some earlier login signed
\* (tokens outlive the process and the account), one past its expiration,
\* or one signed with another key.
ClientTokens ==
    { NoToken,
      [userId |-> "u1", secret |-> jwtSecret, expired |-> FALSE],
      [userId |-> "u2", secret |-> jwtSecret, expired |-> FALSE],
      [userId |-> "u2", secret |-> jwtSecret, expired |-> TRUE],
      [userId |-> "u1", secret |-> "forged", expired |-> FALSE] }

GET_AUTH == "GET /api/auth"
POST_AUTH == "POST /api/auth"
GET_ME == "GET /api/profile/me"
POST_PROFILE == "POST /api/profile"
DELETE_PROFILE == "DELETE /api/profile"

Routes == {GET_AUTH, POST_AUTH, GET_ME, POST_PROFILE, DELETE_PROFILE}

\* DELETE /api/profile registered without `auth`.
ProtectedRoutesUnguardedDelete == {"GET /api/auth", "GET /api/profile/me", "POST /api/profile"}

\* The routes whose middleware chain holds `auth`.
ProtectedRoutes == {GET_AUTH, GET_ME, POST_PROFILE, DELETE_PROFILE}

\* Login bodies: well-formed ones, one with a malformed email, one without
\* a password.
LoginBodies ==
    [email : {"a@x.com", "b@x.com", "c@x.com"}, password : {"secret", "hunter2"}]
    \cup { [email |-> "not-an-email", password |-> "secret"],
           [email |-> "a@x.com"] }

\* Upsert bodies: well-formed ones and one with two empty fields.
ProfileBodies ==
    { [firstName |-> "F", lastName |-> "L", username |-> "a"],
      [firstName |-> "F", lastName |-> "L", username |-> "b"],
      [firstName |-> "G", lastName |-> "L", username |-> "a"],
      [firstName |-> "", lastName |-> "", username |-> "a"] }

NoBody == None

Bodies(route) ==
    IF route = POST_AUTH THEN LoginBodies
    ELSE IF route = POST_PROFILE THEN ProfileBodies
    ELSE {NoBody}

\* The public login route is sent without a token.
Tokens(route) == IF route = POST_AUTH THEN {NoToken} ELSE ClientTokens

----------------------------------------------------------------------------
\* express-validator

\* isEmail()
IsEmail(s) == s \in {"a@x.com", "b@x.com", "c@x.com"}

Field(body, name) == IF name \in DOMAIN body THEN body[name] ELSE ""

\* One entry of errors.array() per failing check, in the order of the chain.
Check(failed, msg, param) ==
    IF failed THEN <<[msg |-> msg, param |-> param]>> ELSE <<>>

LoginErrors(body) ==
    Check(~IsEmail(Field(body, "email")), "Please include a valid email", "email")
    \o Check("password" \notin DOMAIN body, "Password is required", "password")

ProfileErrors(body) ==
    Check(Field(body, "firstName") = "", "First Name is required", "firstName")
    \o Check(Field(body, "lastName") = "", "Last Name is required", "lastName")
    \o Check(Field(body, "username") = "", "Username is required", "username")

----------------------------------------------------------------------------
\* Requests and responses

Reqs == BagToSet(reqs)

Replace(r, r2) == (reqs (-) SetToBag({r})) (+) SetToBag({r2})

NewRequest(route, token, body) ==
    [route |-> route, token |-> token, body |-> body, pc |-> "new",
     userId |-> "", user |-> None, profile |-> None, isMatch |-> FALSE,
     err |-> "", status |-> 0, resBody |-> None]

\* res.status(status).json(body) / .send(body): the request is answered.
Respond(r, status, body) ==
    [r EXCEPT !.pc = "done", !.status = status, !.resBody = body]

Await(r, pc) == [r EXCEPT !.pc = pc]

\* The catch block of every handler: console.error(err.message), then 500.
ServerError(r, message) ==
    Respond([r EXCEPT !.err = message], INTERNAL_SERVER_ERROR,
            [text |-> "Server Error"])

ErrorsBody(list) == [errors |-> list]

Running == proc = "running"

\* Mongoose buffers model calls until the connection is open.
StoreReady == Running /\ db = "connected"

----------------------------------------------------------------------------
\* Middleware and dispatch: the synchronous code that runs when a request
\* arrives, up to the first await of its handler.

\* middleware/auth: the body of its 401, or None when the token verifies.
AuthRejection(token) ==
    IF token = NoToken THEN [msg |-> "No token, authorization denied"]
    ELSE IF ~VerifyOk(token, jwtSecret) THEN [msg |-> "Token is not valid"]
    ELSE None

Validation(route, body) ==
    IF route = POST_AUTH THEN LoginErrors(body)
    ELSE IF route = POST_PROFILE THEN ProfileErrors(body)
    ELSE <<>>

FirstAwait(route) ==
    CASE route = GET_AUTH -> "auth.findById"
      [] route = POST_AUTH -> "login.findOne"
      [] route = GET_ME -> "me.findOne"
      [] route = POST_PROFILE -> "upsert.findUser"
      [] route = DELETE_PROFILE -> "delete.profile"

Dispatch(r) ==
    IF r.route \in ProtectedRoutes /\ AuthRejection(r.token) # None
    THEN Respond(r, UNAUTHORIZED, AuthRejection(r.token))
    ELSE LET a == IF r.route \in ProtectedRoutes
                  THEN [r EXCEPT !.userId = r.token.userId]
                  ELSE r
         IN  IF Validation(a.route, a.body) # <<>>
             THEN Respond(a, BAD_REQUEST, ErrorsBody(Validation(a.route, a.body)))
             ELSE Await(a, FirstAwait(a.route))

----------------------------------------------------------------------------
\* The store

\* What findOne / findOneAndUpdate / findOneAndRemove may pick: any one
\* matching document (no sort is given), or null when nothing matches.
FindOne(matches) == IF matches = {} THEN {JsonNull} ELSE matches

UsersByEmail(email) == {u \in users : u.email = email}

UsersById(id) == {u \in users : u.id = id}

\* The query made with a key the request does not carry (undefined).
ProfilesOfNoMatch(userId) == {p \in profiles : p.user = ""}

\* Profile.findOne({ user: req.userId })
ProfilesOf(userId) == {p \in profiles : p.user = userId}

\* .select("-password")
SelectUser(u) == IF u = JsonNull THEN JsonNull ELSE [id |-> u.id, email |-> u.email]

\* .populate("user", ["avatar", "email"])
Populate(p) ==
    [p EXCEPT !.user = IF UsersById(p.user) = {} THEN JsonNull
                       ELSE SelectUser(CHOOSE u \in UsersById(p.user) : TRUE)]

\* The unique index on Profile.username: the write of doc q (replacing
\* `old`, or {} for an insert) collides with another document.
DuplicateUsername(q, old) ==
    \E o \in profiles \ old : o.username = q.username

\* { $set: profileFields }
SetFields(p, fields) ==
    [p EXCEPT !.user = fields.user, !.firstName = fields.firstName,
              !.lastName = fields.lastName, !.username = fields.username]

\* new Profile(profileFields): the document gets its _id at construction.
NewProfile(fields, id) ==
    [id |-> id, user |-> fields.user, firstName |-> fields.firstName,
     lastName |-> fields.lastName, username |-> fields.username]

----------------------------------------------------------------------------
\* Server bootstrap

Listen ==
    /\ Running /\ ~listening
    /\ listening' = TRUE
    /\ UNCHANGED <<db, proc, users, profiles, nextId, reqs>>

ConnectOk ==
    /\ Running /\ db = "pending"
    /\ db' = "connected"
    /\ UNCHANGED <<listening, proc, users, profiles, nextId, reqs>>

ConnectFail ==
    /\ Running /\ db = "pending"
    /\ db' = "failed"
    /\ proc' = "exited"
    /\ UNCHANGED <<listening, users, profiles, nextId, reqs>>

Receive ==
    /\ Running /\ listening
    /\ BagCardinality(reqs) < MaxReqs
    /\ \E route \in Routes : \E token \in Tokens(route) : \E body \in Bodies(route) :
         reqs' = reqs (+) SetToBag({Dispatch(NewRequest(route, token, body))})
    /\ UNCHANGED <<db, listening, proc, users, profiles, nextId>>

----------------------------------------------------------------------------
\* GET /api/auth

AuthFindById(r) ==
    /\ StoreReady /\ r.pc = "auth.findById"
    /\ \/ \E u \in FindOne(UsersById(r.userId)) :
            reqs' = Replace(r, Respond([r EXCEPT !.user = SelectUser(u)],
                                       OK, SelectUser(u)))
       \/ reqs' = Replace(r, ServerError(r, "StoreError"))
    /\ UNCHANGED <<db, listening, proc, users, profiles, nextId>>

----------------------------------------------------------------------------
\* POST /api/auth

\* A message of its own for the unknown email.
LoginNoUserResponseDistinct ==
    [status |-> BAD_REQUEST, body |-> ErrorsBody(<<[msg |-> "User not found"]>>)]

LoginNoUserResponse ==
    [status |-> BAD_REQUEST, body |-> ErrorsBody(<<[msg |-> "Invalid Credentials"]>>)]

LoginNoMatchResponse ==
    [status |-> BAD_REQUEST, body |-> ErrorsBody(<<[msg |-> "Invalid Credentials"]>>)]

Reply(r, response) == Respond(r, response.status, response.body)

\* The payload built with a fixed id instead of the id of the User found.
LoginPayloadFixed(user) == [userId |-> "u1"]

LoginPayload(user) == [userId |-> user.id]

LoginFindOne(r) ==
    /\ StoreReady /\ r.pc = "login.findOne"
    /\ \/ \E u \in FindOne(UsersByEmail(r.body.email)) :
            reqs' = Replace(r, IF u = JsonNull
                               THEN Reply([r EXCEPT !.user = u], LoginNoUserResponse)
                               ELSE Await([r EXCEPT !.user = u], "login.compare"))
       \/ reqs' = Replace(r, ServerError(r, "StoreError"))
    /\ UNCHANGED <<db, listening, proc, users, profiles, nextId>>

\* bcrypt.compare resolves; on a match jwt.sign is called at once, and an
\* error it reports before returning is thrown inside the try block.
LoginCompare(r) ==
    /\ Running /\ r.pc = "login.compare"
    /\ \/ LET isMatch == Compare(r.body.password, r.user.password)
              a == [r EXCEPT !.isMatch = isMatch]
          IN  reqs' = Replace(r, IF ~isMatch
                                 THEN Reply(a, LoginNoMatchResponse)
                                 ELSE Await(a, "login.sign"))
       \/ reqs' = Replace(r, ServerError(r, "CompareError"))
       \/ /\ Compare(r.body.password, r.user.password)
          /\ reqs' = Replace(r, ServerError([r EXCEPT !.isMatch = TRUE], "SignError"))
    /\ UNCHANGED <<db, listening, proc, users, profiles, nextId>>

\* The jwt.sign callback runs.  `if (err) throw err` there is outside the
\* handler's try block: the exception is uncaught, the request is never
\* answered and the process dies.
LoginSign(r) ==
    /\ Running /\ r.pc = "login.sign"
    /\ \/ /\ reqs' = Replace(r, Respond(r, OK,
                        [token |-> Sign(LoginPayload(r.user), jwtSecret)]))
          /\ proc' = proc
       \/ /\ reqs' = Replace(r, [r EXCEPT !.pc = "thrown", !.err = "SignError"])
          /\ proc' = "exited"
    /\ UNCHANGED <<db, listening, users, profiles, nextId>>

----------------------------------------------------------------------------
\* GET /api/profile/me

NoProfileBody == ErrorsBody(<<[msg |-> "There is no profile for this user"]>>)

MeFindOne(r) ==
    /\ StoreReady /\ r.pc = "me.findOne"
    /\ \/ \E p \in FindOne(ProfilesOf(r.userId)) :
            reqs' = Replace(r, IF p = JsonNull
                               THEN Respond([r EXCEPT !.profile = p],
                                            BAD_REQUEST, NoProfileBody)
                               ELSE Respond([r EXCEPT !.profile = Populate(p)],
                                            OK, Populate(p)))
       \/ reqs' = Replace(r, ServerError(r, "StoreError"))
    /\ UNCHANGED <<db, listening, proc, users, profiles, nextId>>

----------------------------------------------------------------------------
\* POST /api/profile

ProfileFields(r) ==
    [user |-> r.userId, firstName |-> r.body.firstName,
     lastName |-> r.body.lastName, username |-> r.body.username]

NotRegisteredBody == ErrorsBody(<<[msg |-> "User not registered"]>>)

\* The guard left out.
UserMissingNever(user) == FALSE

\* if (!user)
UserMissing(user) == user = JsonNull

UpsertFindUser(r) ==
    /\ StoreReady /\ r.pc = "upsert.findUser"
    /\ \/ \E u \in FindOne(UsersById(r.userId)) :
            reqs' = Replace(r, IF UserMissing(u)
                               THEN Respond([r EXCEPT !.user = u],
                                            BAD_REQUEST, NotRegisteredBody)
                               ELSE Await([r EXCEPT !.user = u], "upsert.findProfile"))
       \/ reqs' = Replace(r, ServerError(r, "StoreError"))
    /\ UNCHANGED <<db, listening, proc, users, profiles, nextId>>

\* Profile.findOne resolves; when it found nothing the new document is
\* constructed and save() is called.
UpsertFindProfile(r) ==
    /\ StoreReady /\ r.pc = "upsert.findProfile"
    /\ \/ \E p \in FindOne(ProfilesOf(r.userId)) :
            IF p # JsonNull
            THEN /\ reqs' = Replace(r, Await([r EXCEPT !.profile = p], "upsert.update"))
                 /\ nextId' = nextId
            ELSE /\ reqs' = Replace(r, Await([r EXCEPT !.profile =
                                NewProfile(ProfileFields(r), nextId)], "upsert.save"))
                 /\ nextId' = nextId + 1
       \/ /\ reqs' = Replace(r, ServerError(r, "StoreError"))
          /\ nextId' = nextId
    /\ UNCHANGED <<db, listening, proc, users, profiles>>

\* Profile.findOneAndUpdate({user}, {$set: profileFields}, {new: true})
UpsertUpdate(r) ==
    /\ StoreReady /\ r.pc = "upsert.update"
    /\ \/ \E p \in FindOne(ProfilesOf(r.userId)) :
            IF p = JsonNull
            THEN /\ reqs' = Replace(r, Respond([r EXCEPT !.profile = p], OK, p))
                 /\ profiles' = profiles
            ELSE LET q == SetFields(p, ProfileFields(r))
                 IN  IF DuplicateUsername(q, {p})
                     THEN /\ reqs' = Replace(r, ServerError(r, "E11000"))
                          /\ profiles' = profiles
                     ELSE /\ reqs' = Replace(r, Respond([r EXCEPT !.profile = q], OK, q))
                          /\ profiles' = (profiles \ {p}) \cup {q}
       \/ /\ reqs' = Replace(r, ServerError(r, "StoreError"))
          /\ profiles' = profiles
    /\ UNCHANGED <<db, listening, proc, users, nextId>>

\* profile.save()
UpsertSave(r) ==
    /\ StoreReady /\ r.pc = "upsert.save"
    /\ \/ IF DuplicateUsername(r.profile, {})
          THEN /\ reqs' = Replace(r, ServerError(r, "E11000"))
               /\ profiles' = profiles
          ELSE /\ reqs' = Replace(r, Respond(r, OK, r.profile))
               /\ profiles' = profiles \cup {r.profile}
       \/ /\ reqs' = Replace(r, ServerError(r, "StoreError"))
          /\ profiles' = profiles
    /\ UNCHANGED <<db, listening, proc, users, nextId>>

----------------------------------------------------------------------------
\* DELETE /api/profile

\* Profile.findOneAndRemove({ user: req.userId })
\* Variant that records the failed Profile removal but goes on to the User
\* removal instead of leaving the handler through its catch block.
DeleteProfileGoesOn(r) ==
    /\ StoreReady /\ r.pc = "delete.profile"
    /\ \/ \E p \in FindOne(ProfilesOf(r.userId)) :
            /\ profiles' = profiles \ {p}
            /\ reqs' = Replace(r, Await(r, "delete.user"))
       \/ /\ reqs' = Replace(r, Await([r EXCEPT !.err = "StoreError"], "delete.user"))
          /\ profiles' = profiles
    /\ UNCHANGED <<db, listening, proc, users, nextId>>

DeleteProfile(r) ==
    /\ StoreReady /\ r.pc = "delete.profile"
    /\ \/ \E p \in FindOne(ProfilesOf(r.userId)) :
            /\ profiles' = profiles \ {p}
            /\ reqs' = Replace(r, Await(r, "delete.user"))
       \/ /\ reqs' = Replace(r, ServerError(r, "StoreError"))
          /\ profiles' = profiles
    /\ UNCHANGED <<db, listening, proc, users, nextId>>

\* User.findOneAndRemove({ _id: req.userId })
DeleteUser(r) ==
    /\ StoreReady /\ r.pc = "delete.user"
    /\ \/ \E u \in FindOne(UsersById(r.userId)) :
            /\ users' = users \ {u}
            /\ reqs' = Replace(r, Respond(r, OK, [msg |-> "User removed"]))
       \/ /\ reqs' = Replace(r, ServerError(r, "StoreError"))
          /\ users' = users
    /\ UNCHANGED <<db, listening, proc, profiles, nextId>>

----------------------------------------------------------------------------
\* The system

\* The Profile collection the process finds when it starts: empty, or
\* holding the Profile an earlier run stored for u1.
InitialProfiles ==
    { {},
      {NewProfile([user |-> "u1", firstName |-> "F", lastName |-> "L",
                   username |-> "a"], 1)} }

Init ==
    /\ db = "pending"
    /\ listening = FALSE
    /\ proc = "running"
    /\ users = AllUsers
    /\ profiles \in InitialProfiles
    /\ nextId = Cardinality(profiles) + 1
    /\ reqs = EmptyBag

Next ==
    \/ Listen
    \/ ConnectOk
    \/ ConnectFail
    \/ Receive
    \/ \E r \in Reqs : AuthFindById(r)
    \/ \E r \in Reqs : LoginFindOne(r)
    \/ \E r \in Reqs : LoginCompare(r)
    \/ \E r \in Reqs : LoginSign(r)
    \/ \E r \in Reqs : MeFindOne(r)
    \/ \E r \in Reqs : UpsertFindUser(r)
    \/ \E r \in Reqs : UpsertFindProfile(r)
    \/ \E r \in Reqs : UpsertUpdate(r)
    \/ \E r \in Reqs : UpsertSave(r)
    \/ \E r \in Reqs : DeleteProfile(r)
    \/ \E r \in Reqs : DeleteUser(r)

Spec == Init /\ [][Next]_vars

\* One request at a time: the next one arrives when every earlier one has
\* been answered.
Answered(r) == r.pc \in {"done", "thrown"}

ReceiveSerial == (\A r \in Reqs : Answered(r)) /\ Receive

NextSerial ==
    \/ Listen
    \/ ConnectOk
    \/ ConnectFail
    \/ ReceiveSerial
    \/ \E r \in Reqs : AuthFindById(r)
    \/ \E r \in Reqs : LoginFindOne(r)
    \/ \E r \in Reqs : LoginCompare(r)
    \/ \E r \in Reqs : LoginSign(r)
    \/ \E r \in Reqs : MeFindOne(r)
    \/ \E r \in Reqs : UpsertFindUser(r)
    \/ \E r \in Reqs : UpsertFindProfile(r)
    \/ \E r \in Reqs : UpsertUpdate(r)
    \/ \E r \in Reqs : UpsertSave(r)
    \/ \E r \in Reqs : DeleteProfile(r)
    \/ \E r \in Reqs : DeleteUser(r)

SpecSerial == Init /\ [][NextSerial]_vars

----------------------------------------------------------------------------
\* Properties

Protected(r) == r.route \in {GET_AUTH, GET_ME, POST_PROFILE, DELETE_PROFILE}

\* The request passed the gate as user `id`.
AuthenticatedAs(r, id) == r.userId = id /\ id # ""

\* C1: a login with a registered user's email and the correct password is
\* answered 200 with a token that verifies and whose claim carries that
\* user's id.
C1_LoginYieldsOwnToken ==
    \A r \in Reqs : \A u \in AllUsers :
        ( /\ r.route = POST_AUTH /\ r.pc = "done" /\ r.err = ""
          /\ Validation(POST_AUTH, r.body) = <<>>
          /\ r.body.email = u.email
          /\ Compare(r.body.password, u.password)
          /\ r.user # JsonNull )
        => /\ r.status = OK
           /\ DOMAIN r.resBody = {"token"}
           /\ VerifyOk(r.resBody.token, jwtSecret)
           /\ r.resBody.token.userId = u.id

C1_Witness ==
    \E r \in Reqs :
        /\ r.route = POST_AUTH /\ r.pc = "done" /\ r.status = OK
        /\ r.body = [email |-> "b@x.com", password |-> "hunter2"]
        /\ r.resBody.token.userId = "u2"

\* A login that failed because no User has the email.
UnknownEmail(r) ==
    r.route = POST_AUTH /\ r.pc = "done" /\ r.err = "" /\ r.user = JsonNull

\* A login that failed because the password does not match the User found.
WrongPassword(r) ==
    /\ r.route = POST_AUTH /\ r.pc = "done" /\ r.err = ""
    /\ r.user \in AllUsers
    /\ ~Compare(r.body.password, r.user.password)

\* C2: a login with an unknown email and a login with a wrong password get
\* the identical response: 400 with the single message "Invalid Credentials".
C2_LoginIndistinguishable ==
    \A r1, r2 \in Reqs :
        (UnknownEmail(r1) /\ WrongPassword(r2))
        => /\ r1.status = r2.status
           /\ r1.resBody = r2.resBody
           /\ r1.status = BAD_REQUEST
           /\ r1.resBody = [errors |-> <<[msg |-> "Invalid Credentials"]>>]

C2_Witness == \E r1, r2 \in Reqs : UnknownEmail(r1) /\ WrongPassword(r2)

\* C3: at most one Profile references any given User.
C3_OneProfilePerUser ==
    \A p, q \in profiles : p.user = q.user => p = q

\* C4: no two Profiles share a username, and an upsert whose write collided
\* with a different user's Profile is answered with a 4xx status.
C4_UsernameConflictRejected ==
    /\ \A p, q \in profiles : p.username = q.username => p = q
    /\ \A r \in Reqs :
          ( /\ r.route = POST_PROFILE /\ r.pc = "done" /\ r.err = "E11000"
            /\ \E p \in profiles : p.username = r.body.username /\ p.user # r.userId )
          => r.status >= 400 /\ r.status < 500

\* A request that reached a handler that writes the store.
Writer(r) ==
    /\ r.route \in {POST_PROFILE, DELETE_PROFILE}
    /\ r.userId # ""
    /\ Validation(r.route, r.body) = <<>>

\* Two upserts by the same user with the same fields, both answered.
SameUpsertTwice(r1, r2) ==
    /\ r1 # r2 \/ CopiesIn(r1, reqs) >= 2
    /\ r1.route = POST_PROFILE /\ r2.route = POST_PROFILE
    /\ r1.pc = "done" /\ r2.pc = "done"
    /\ AuthenticatedAs(r1, r2.userId)
    /\ r1.body = r2.body

\* C5: with requests handled one after the other, when one of two identical
\* upserts by a user succeeded, the other one (no store failure, no other
\* writing request in the run) succeeded too and returned the same id; the
\* user has exactly one Profile, holding the fields of the input.
C5_UpsertIdempotent ==
    \A r1, r2 \in Reqs :
        ( /\ SameUpsertTwice(r1, r2)
          /\ r1.status = OK
          /\ r2.err # "StoreError"
          /\ \A r3 \in Reqs \ {r1, r2} : ~Writer(r3) )
        => /\ r2.status = OK
           /\ r1.resBody # JsonNull /\ r2.resBody # JsonNull
           /\ r2.resBody.id = r1.resBody.id
           /\ ProfilesOf(r1.userId)
                = {NewProfile(ProfileFields(r1), r1.resBody.id)}

\* u2 has no Profile at the start: the first of its two calls created it.
C5_Witness ==
    \E r1, r2 \in Reqs :
        /\ SameUpsertTwice(r1, r2)
        /\ AuthenticatedAs(r1, "u2")
        /\ r1.status = OK /\ r2.status = OK
        /\ r1.resBody.id = r2.resBody.id
        /\ ProfilesOf("u2") = {NewProfile(ProfileFields(r1), r1.resBody.id)}

\* C6: once DELETE /api/profile has answered 200 for a user, the store
\* holds no Profile referencing that user and not the User.
C6_DeleteRemovesBoth ==
    \A r \in Reqs :
        (r.route = DELETE_PROFILE /\ r.pc = "done" /\ r.status = OK)
        => /\ ProfilesOf(r.userId) = {}
           /\ UsersById(r.userId) = {}

\* C7: an identity fetch whose userId resolves to no User is not answered
\* with a success status.
C7_VanishedAccountNotFound ==
    \A r \in Reqs :
        (r.route = GET_AUTH /\ r.pc = "done" /\ r.err = "" /\ r.user = JsonNull)
        => r.status >= 400

\* The gate answered 401 and the handler never ran: nothing was read from
\* the store into the request and nothing failed in it.
Rejected(r) ==
    /\ r.pc = "done" /\ r.status = UNAUTHORIZED
    /\ r.userId = "" /\ r.user = None /\ r.profile = None /\ r.err = ""

\* C8: on the four protected routes a request without a token, or with one
\* that does not verify, is answered 401 by the gate and its handler never
\* runs; every other request carries the userId of its verified token.
C8_AuthGate ==
    \A r \in Reqs :
        Protected(r) =>
            IF r.token = NoToken \/ ~VerifyOk(r.token, jwtSecret)
            THEN Rejected(r)
            ELSE r.userId = r.token.userId

C8_Witness ==
    \E r1, r2 \in Reqs :
        /\ r1.route = DELETE_PROFILE /\ r1.token = NoToken /\ Rejected(r1)
        /\ r2.route = DELETE_PROFILE /\ r2.pc = "done" /\ r2.status = OK
        /\ r2.userId = "u2"

\* C9: the server listens only once the connection has succeeded, and a
\* failed connection ends the process.
C9_ConnectedBeforeListening ==
    /\ (Running /\ listening) => db = "connected"
    /\ db = "failed" => proc = "exited"

\* C10: an upsert whose verified userId matches no User is answered 400
\* "User not registered" and goes no further: it never looks up, builds or
\* writes a Profile.
C10_UpsertUserGuard ==
    \A r \in Reqs :
        (r.route = POST_PROFILE /\ r.user = JsonNull)
        => /\ r.pc = "done"
           /\ r.status = BAD_REQUEST
           /\ r.resBody = [errors |-> <<[msg |-> "User not registered"]>>]
           /\ r.profile = None

C10_Witness ==
    \E r \in Reqs :
        /\ r.route = POST_PROFILE /\ r.user = JsonNull /\ r.status = BAD_REQUEST
        /\ r.token = [userId |-> "u1", secret |-> jwtSecret, expired |-> FALSE]
        /\ UsersById("u1") = {}

\* C11: a request in which a store call, the password comparison or the
\* token signing failed has been answered, with the generic 500 "Server
\* Error" (it is not left without a response).
C11_FailureAnswered500 ==
    \A r \in Reqs :
        r.err # ""
        => /\ r.pc = "done"
           /\ r.status = INTERNAL_SERVER_ERROR
           /\ r.resBody = [text |-> "Server Error"]

\* The handler step that takes request r to r2.
Stepped(r, r2) == r2 # r /\ reqs' = Replace(r, r2)

DeleteFailedAt(r, r2, pc) ==
    /\ r.route = DELETE_PROFILE /\ r.pc = pc
    /\ Stepped(r, r2) /\ r2.err = "StoreError"

\* C12: when the User removal of a DELETE /api/profile fails after the
\* Profile removal, the request is answered 500, the Profile is not put back
\* and the User record is left in the store; when the Profile removal itself
\* fails, the request is answered 500 without the User removal being
\* attempted, and neither collection changes.
C12_NonAtomicDelete ==
    [][\A r \in Reqs : \A r2 \in BagToSet(reqs') :
          /\ DeleteFailedAt(r, r2, "delete.user")
             => /\ r2.pc = "done" /\ r2.status = INTERNAL_SERVER_ERROR
                /\ r2.resBody = [text |-> "Server Error"]
                /\ profiles' = profiles
                /\ users' = users
          /\ DeleteFailedAt(r, r2, "delete.profile")
             => /\ r2.pc = "done" /\ r2.status = INTERNAL_SERVER_ERROR
                /\ r2.resBody = [text |-> "Server Error"]
                /\ profiles' = profiles
                /\ users' = users
      ]_vars

\* u1's Profile existed, a single DELETE by u1 removed it and then failed on
\* the User removal: the request is answered 500 and u1 is an orphaned User.
C12_Witness ==
    \E r \in Reqs :
        /\ Reqs = {r} /\ BagCardinality(reqs) = 1
        /\ r.route = DELETE_PROFILE /\ AuthenticatedAs(r, "u1")
        /\ r.pc = "done" /\ r.err = "StoreError"
        /\ r.status = INTERNAL_SERVER_ERROR
        /\ nextId = 2 /\ profiles = {}
        /\ UsersById("u1") # {}

\* No request is in flight and no store, bcrypt or jwt call has failed.
QuietAndFaultless == \A r \in Reqs : r.pc = "done" /\ r.err = ""

\* C13: when every store operation has succeeded and no request is in
\* flight, the user reference of each Profile names a User in the store.
C13_ProfileUserExists ==
    QuietAndFaultless => \A p \in profiles : UsersById(p.user) # {}

====
